---- MODULE Spec2Model ----
(***************************************************************************)
(* Tree synchronisation and drag-reorder engine of the Tau notes sidebar.  *)
(*                                                                         *)
(* Spec      : components/enhanced-sidebar.tsx, the pointer-driven sidebar *)
(*             (Tree Model, Drag Controller, Move Engine) running against  *)
(*             an asynchronous Entry Source.                               *)
(* OrderSpec : components/enhanced-sidebar-backup.tsx, the Order Store     *)
(*             (loadOrder / saveOrder / the reconciling sort) and the      *)
(*             arrayMove reorder of onDragEnd.                             *)
(*                                                                         *)
(* Paths are sequences of name segments ("Projects/Sub" is <<"P","S">>),   *)
(* the vault root is the empty path; a JavaScript null path is NoPath.     *)
(***************************************************************************)
EXTENDS Integers, Sequences, FiniteSets, Bags, TLC

VARIABLES
    \* ---- Entry Source (backend) ----
    fs,             \* set of paths that exist in the vault
    orderRec,       \* backend order records written by reorderEntries: dir -> names
    \* ---- React state of EnhancedSidebar (enhanced-sidebar.tsx:53-66) ----
    entries,        \* Entry[] of the last root listing
    isLoading,
    fileTree,       \* FileTreeNode[]
    draggedItem,    \* path or NoPath
    dragOverTarget, \* path or NoPath
    insertionLine,  \* [position, path] or NoLine
    isDragging,
    dragStartPos,   \* TRUE when a start position is recorded (null otherwise)
    dragStartTime,  \* TRUE when a start time is recorded (null otherwise)
    expandedPaths,  \* set of paths
    \* ---- state of the parent component (HomePage) ----
    selectedNote,   \* path or NoPath
    \* ---- environment: pointer, clock, event loop ----
    button,         \* "up" | "down"
    at,             \* what the pointer is over: [kind, path]
    pressed,        \* node on which the current gesture's pointer-down happened
    calls,          \* bag of Entry Source calls in flight, with their continuation
    timers,         \* number of pending setTimeout(() => setDraggedItem(null), 50)
    \* ---- observation (history) ----
    gestures,       \* pointer-downs so far
    refreshed,      \* "clean": the last operation has started its refresh and no listing has
                    \* failed since; "failed": a listing has failed; "none" otherwise
    last,           \* what the last step did: the operation that returned, whether alert()
                    \* was called, the <<old, new>> handed to onNoteRenamed; for a pointer-up
                    \* the handlers that ran and the Move Engine invocations and toggles /
                    \* selects they made
    \* ---- Order Store and dnd-kit sidebar (enhanced-sidebar-backup.tsx) ----
    oKids,          \* the vault: directory -> names of its children
    oFiles,         \* the order files: directory -> JSON text ("" when there is none)
    orderMap,       \* React state orderMap: directory -> names
    oTree,          \* the names on screen: directory -> names in displayed order
    oPc,            \* "idle", or "saving" while onDragEnd awaits saveOrder
    oOp,            \* the reorder onDragEnd is carrying out
    oWrites,        \* order files written so far
    oSaved,         \* history: directory -> names of the last successful save
    oLast           \* what the last step did

vars == <<fs, orderRec, entries, isLoading, fileTree, draggedItem, dragOverTarget,
          insertionLine, isDragging, dragStartPos, dragStartTime, expandedPaths,
          selectedNote, button, at, pressed, calls, timers, gestures,
          refreshed, last,
          oKids, oFiles, orderMap, oTree, oPc, oOp, oWrites, oSaved, oLast>>

sidebarVars == <<fs, orderRec, entries, isLoading, fileTree, draggedItem, dragOverTarget,
          insertionLine, isDragging, dragStartPos, dragStartTime, expandedPaths,
          selectedNote, button, at, pressed, calls, timers, gestures,
          refreshed, last>>

orderVars == <<oKids, oFiles, orderMap, oTree, oPc, oOp, oWrites, oSaved, oLast>>

----------------------------------------------------------------------------
(* Names, paths, entries *)

Root == <<>>
NoPath == <<"null">>

DirNames == {"P", "S", "D"}

\* name.localeCompare: the names of the model in collation order
Collation == <<"a", "a.md", "c\\", "D", "n.md", "P", "q\"", "r.md", "S">>
Rank(n) == CHOOSE i \in 1..Len(Collation) : Collation[i] = n
localeCompare(a, b) == Rank(a) - Rank(b)

Last(p) == p[Len(p)]
IsPrefix(p, q) == Len(p) <= Len(q) /\ SubSeq(q, 1, Len(p)) = p
\* q lies strictly inside directory p  (q.startsWith(p + separator))
Inside(p, q) == Len(p) < Len(q) /\ IsPrefix(p, q)

getParentPath(p) == IF Len(p) <= 1 THEN Root ELSE SubSeq(p, 1, Len(p) - 1)
baseName(p) == Last(p)

Entry(p) == [name |-> Last(p), path |-> p, is_dir |-> Last(p) \in DirNames]
NoEntry == [name |-> "null", path |-> NoPath, is_dir |-> FALSE]
isMarkdown(e) == e.name \in {"a.md", "n.md", "r.md"}

InitVault == { <<"P">>, <<"P", "S">>, <<"P", "S", "n.md">>, <<"P", "a.md">>, <<"r.md">> }

Range(s) == { s[i] : i \in 1..Len(s) }
SeqOf(S, Less(_, _)) ==
    LET RECURSIVE build(_)
        build(T) == IF T = {} THEN <<>>
                    ELSE LET x == CHOOSE x \in T : \A y \in T \ {x} : Less(x, y)
                         IN <<x>> \o build(T \ {x})
    IN build(S)
Find(s, P(_), none) ==
    IF \E i \in 1..Len(s) : P(s[i])
    THEN s[CHOOSE i \in 1..Len(s) : P(s[i]) /\ \A j \in 1..(i - 1) : ~P(s[j])]
    ELSE none

----------------------------------------------------------------------------
(* Bounds of the model *)

MaxGestures == 3    \* pointer-downs in one behaviour
MaxPending == 0     \* calls and timers that may be outstanding when a gesture begins
MaxLen == 2         \* names in a list handed to saveOrder directly
OverlapGestures == 2 \* pointer-downs in one behaviour of OverlapSpec
OverlapPending == 1 \* calls and timers that may be outstanding when a gesture of OverlapSpec begins
MaxWrites == 2      \* order files written in one behaviour
MaxListing == 3     \* entries in a listing handed to buildFileTree directly

----------------------------------------------------------------------------
(* Order Store: the reconciling sort (enhanced-sidebar-backup.tsx:219-229) *)

\* nameToIndex = new Map(saved.map((n, i) => [n, i])): a later duplicate wins
nameToIndex(saved, n) ==
    IF n \in Range(saved)
    THEN CHOOSE i \in 1..Len(saved) : saved[i] = n /\ \A j \in (i + 1)..Len(saved) : saved[j] # n
    ELSE 0
\* Number.MAX_SAFE_INTEGER, at the width of the checker's integers: larger than any index
MAX_SAFE_INTEGER == 2147483647

\* a comparator that puts the kind before the saved index
orderCompareKindFirst(saved, a, b) ==
    LET ai == IF nameToIndex(saved, a.name) # 0 THEN nameToIndex(saved, a.name) ELSE MAX_SAFE_INTEGER
        bi == IF nameToIndex(saved, b.name) # 0 THEN nameToIndex(saved, b.name) ELSE MAX_SAFE_INTEGER
    IN IF a.is_dir /\ ~b.is_dir THEN -1
       ELSE IF ~a.is_dir /\ b.is_dir THEN 1
       ELSE IF ai # bi THEN ai - bi
       ELSE localeCompare(a.name, b.name)

\* the comparator of childNodes.sort: < 0 when a sorts before b
orderCompare(saved, a, b) ==
    LET ai == IF nameToIndex(saved, a.name) # 0 THEN nameToIndex(saved, a.name) ELSE MAX_SAFE_INTEGER
        bi == IF nameToIndex(saved, b.name) # 0 THEN nameToIndex(saved, b.name) ELSE MAX_SAFE_INTEGER
    IN IF ai # bi THEN ai - bi
       ELSE IF a.is_dir /\ ~b.is_dir THEN -1
       ELSE IF ~a.is_dir /\ b.is_dir THEN 1
       ELSE localeCompare(a.name, b.name)

\* reconcile(children, savedNames): children sorted with the comparator
reconcile(children, saved) ==
    LET Less(a, b) == orderCompare(saved, a, b) < 0 IN SortSeq(children, Less)

----------------------------------------------------------------------------
(* Order Store: the order file (enhanced-sidebar-backup.tsx:64-85).  A file is the *)
(* sequence of its characters; a name is written as its spelling               *)

OrderDirs == {Root, <<"D">>}
OrderNames == {"a", "D", "q\"", "c\\"}

\* the characters of a name
Spelling(n) ==
    CASE n = "q\"" -> <<"q", "\"">>
      [] n = "c\\" -> <<"c", "\\">>
      [] OTHER -> <<n>>
NameOf(chars) ==
    IF \E n \in OrderNames : Spelling(n) = chars
    THEN CHOOSE n \in OrderNames : Spelling(n) = chars
    ELSE "?"

\* the characters written as they are
keepChars(chars) == chars

\* JSON.stringify of a string: quotes around it, a backslash before a quote or a backslash
RECURSIVE escapeChars(_)
escapeChars(chars) ==
    IF chars = <<>> THEN <<>>
    ELSE (IF Head(chars) \in {"\"", "\\"} THEN <<"\\", Head(chars)>> ELSE <<Head(chars)>>)
            \o escapeChars(Tail(chars))
quoteString(n) == <<"\"">> \o escapeChars(Spelling(n)) \o <<"\"">>

RECURSIVE joinItems(_)
joinItems(names) ==
    IF names = <<>> THEN <<>>
    ELSE IF Len(names) = 1 THEN quoteString(names[1])
    ELSE quoteString(names[1]) \o <<",">> \o joinItems(Tail(names))

\* JSON.stringify(names) for an array of strings
JSONstringify(names) == <<"[">> \o joinItems(names) \o <<"]">>

ParseError == [ok |-> FALSE, items |-> <<>>, next |-> 0]

\* the rest of a string literal from text[i] on, up to its closing quote
RECURSIVE readString(_, _, _)
readString(text, i, acc) ==
    IF i > Len(text) THEN ParseError
    ELSE IF text[i] = "\"" THEN [ok |-> TRUE, items |-> acc, next |-> i + 1]
    ELSE IF text[i] = "\\"
    THEN IF i + 1 > Len(text) THEN ParseError
         ELSE readString(text, i + 2, Append(acc, text[i + 1]))
    ELSE readString(text, i + 1, Append(acc, text[i]))

\* the elements of an array from text[i] on, up to the closing bracket that ends the text
RECURSIVE readItems(_, _, _)
readItems(text, i, acc) ==
    IF i > Len(text) \/ text[i] # "\"" THEN ParseError
    ELSE LET str == readString(text, i + 1, <<>>) IN
         IF ~str.ok \/ str.next > Len(text) THEN ParseError
         ELSE IF text[str.next] = "," THEN readItems(text, str.next + 1, Append(acc, str.items))
         ELSE IF text[str.next] = "]" /\ str.next = Len(text)
         THEN [ok |-> TRUE, items |-> Append(acc, str.items), next |-> str.next + 1]
         ELSE ParseError

\* JSON.parse(content) for an array of strings; it throws (ok = FALSE) on any other text
JSONparse(text) ==
    IF Len(text) < 2 \/ text[1] # "[" THEN ParseError
    ELSE IF text = <<"[", "]">> THEN [ok |-> TRUE, items |-> <<>>, next |-> 3]
    ELSE readItems(text, 2, <<>>)

NoFile == <<>>

\* saveOrder(folderPath, names); ok: writeNote resolves.  A rejection is only logged.
saveOrder(files, map, folderPath, names, ok) ==
    IF ok
    THEN [files |-> [files EXCEPT ![folderPath] = JSONstringify(names)],
          map |-> (folderPath :> names) @@ map, alert |-> FALSE]
    ELSE [files |-> files, map |-> map, alert |-> FALSE]

\* loadOrder(folderPath); ok: readNote resolves.  A missing file or bad text gives [].
loadOrder(files, map, folderPath, ok) ==
    LET parsed == IF ok /\ files[folderPath] # NoFile THEN JSONparse(files[folderPath])
                  ELSE ParseError
        names == [i \in 1..Len(parsed.items) |-> NameOf(parsed.items[i])]
    IN IF parsed.ok THEN [names |-> names, map |-> (folderPath :> names) @@ map, read |-> TRUE]
       ELSE [names |-> <<>>, map |-> map, read |-> FALSE]

----------------------------------------------------------------------------
(* Entry Source: the backend behind lib/tauri-api (list_entries, rename_entry, *)
(* reorder_entries), an asynchronous collaborator that may fail               *)

ChildrenOf(F, dir) == { p \in F : p # Root /\ Len(p) = Len(dir) + 1 /\ getParentPath(p) = dir }

DirExists(F, dir) == dir = Root \/ (dir \in F /\ Entry(dir).is_dir)

\* list(dir): the entries of one directory, in the backend's (name) order
listEntries(F, dir) ==
    LET Less(a, b) == localeCompare(a.name, b.name) < 0
    IN SeqOf({ Entry(p) : p \in ChildrenOf(F, dir) }, Less)

Rebase(from, to, p) == IF IsPrefix(from, p) THEN to \o SubSeq(p, Len(from) + 1, Len(p)) ELSE p

renameValid(F, from, to) ==
    /\ from \in F
    /\ to = from \/ (to \notin F /\ ~IsPrefix(from, to) /\ DirExists(F, getParentPath(to)))

renameEffect(F, from, to) == { Rebase(from, to, p) : p \in F }

\* an order record lives in its directory and moves with it
renameRecords(R, from, to) ==
    [d \in { Rebase(from, to, x) : x \in DOMAIN R } |->
        R[CHOOSE x \in DOMAIN R : Rebase(from, to, x) = d]]

\* delete(path): the entry goes, and with a directory everything inside it
deleteValid(F, path) == path \in F
deleteEffect(F, path) == { q \in F : ~IsPrefix(path, q) }
deleteRecords(R, path) == [d \in { x \in DOMAIN R : ~IsPrefix(path, x) } |-> R[d]]

savedOrder(R, dir) == IF dir \in DOMAIN R THEN R[dir] ELSE <<>>

\* arrayMove(array, from, to) of @dnd-kit/sortable: splice out, splice in (1-based here)
arrayMove(array, from, to) ==
    LET item == array[from]
        rest == SubSeq(array, 1, from - 1) \o SubSeq(array, from + 1, Len(array))
    IN SubSeq(rest, 1, to - 1) \o <<item>> \o SubSeq(rest, to, Len(rest))

IndexOf(s, x) == IF x \in Range(s) THEN CHOOSE i \in 1..Len(s) : s[i] = x /\ \A j \in 1..(i - 1) : s[j] # x ELSE 0

\* a reorder that does not allow for the removal of the source before the insertion
reorderNamesUnadjusted(order, sourceName, targetName, position) ==
    LET from == IndexOf(order, sourceName)
        toBase == IndexOf(order, targetName)
        to == IF position = "before" THEN toBase ELSE toBase + 1
    IN arrayMove(order, from, to)

\* a reorder that exchanges the source and the target
reorderNamesSwapped(order, sourceName, targetName, position) ==
    [i \in 1..Len(order) |-> IF order[i] = sourceName THEN targetName
                             ELSE IF order[i] = targetName THEN sourceName ELSE order[i]]

\* the reorder of onDragEnd (enhanced-sidebar-backup.tsx:662-666), 1-based
reorderNames(order, sourceName, targetName, position) ==
    LET from == IndexOf(order, sourceName)
        toBase == IndexOf(order, targetName)
        to == IF position = "before" THEN toBase ELSE toBase + 1
    IN arrayMove(order, from, IF to > from THEN to - 1 ELSE to)

materialized(F, R, dir) ==
    LET kids == reconcile(listEntries(F, dir), savedOrder(R, dir))
    IN [i \in 1..Len(kids) |-> kids[i].name]

reorderValid(F, R, dir, src, tgt) ==
    /\ DirExists(F, dir)
    /\ src \in ChildrenOf(F, dir) /\ tgt \in ChildrenOf(F, dir) /\ src # tgt

reorderEffect(F, R, dir, src, tgt, position) ==
    (dir :> reorderNames(materialized(F, R, dir), baseName(src), baseName(tgt), position)) @@ R

----------------------------------------------------------------------------
(* Tree Model (enhanced-sidebar.tsx:98-188, 238-271) *)

Node(e, ex) == [entry |-> e, children |-> <<>>, isExpanded |-> ex]
NoNode == [entry |-> NoEntry, children |-> <<>>, isExpanded |-> FALSE]

isSidecar(e) == e.name = ".tau_order.json"

\* a comparator that sorts by name alone
sortCompareByName(a, b) == localeCompare(a.entry.name, b.entry.name)

\* the comparator of sortNodes: folders first, then by name
sortCompare(a, b) ==
    IF a.entry.is_dir /\ ~b.entry.is_dir THEN -1
    ELSE IF ~a.entry.is_dir /\ b.entry.is_dir THEN 1
    ELSE localeCompare(a.entry.name, b.entry.name)

sortNodes(nodes) == LET Less(a, b) == sortCompare(a, b) < 0 IN SortSeq(nodes, Less)

\* a tree built from every entry of the listing, whatever its depth
buildFileTreeAllLevels(es, exp) ==
    LET filtered == SelectSeq(es, LAMBDA e : ~isSidecar(e))
    IN sortNodes([i \in 1..Len(filtered) |-> Node(filtered[i], filtered[i].path \in exp)])

\* the tree buildFileTree hands to setFileTree
buildFileTree(es, exp) ==
    LET filtered == SelectSeq(es, LAMBDA e : ~isSidecar(e))
        rootOnes == SelectSeq(filtered, LAMBDA e : Len(e.path) = 1)
    IN sortNodes([i \in 1..Len(rootOnes) |-> Node(rootOnes[i], rootOnes[i].path \in exp)])

\* the paths for which buildFileTree, and then loadEntries again, call loadChildrenForFolder
reExpandTargets(es, exp) ==
    { p \in exp : \E i \in 1..Len(es) : es[i].path = p /\ es[i].is_dir }

RECURSIVE findNodeByPath(_, _)
findNodeByPath(nodes, targetPath) ==
    IF nodes = <<>> THEN NoNode
    ELSE LET node == Head(nodes) IN
         IF node.entry.path = targetPath THEN node
         ELSE LET found == findNodeByPath(node.children, targetPath) IN
              IF found # NoNode THEN found ELSE findNodeByPath(Tail(nodes), targetPath)

RECURSIVE replaceChildrenForPath(_, _, _)
replaceChildrenForPath(nodes, targetPath, newChildren) ==
    [i \in 1..Len(nodes) |->
        LET node == nodes[i] IN
        IF node.entry.path = targetPath
        THEN [node EXCEPT !.children = newChildren, !.isExpanded = TRUE]
        ELSE IF Len(node.children) > 0
        THEN [node EXCEPT !.children = replaceChildrenForPath(node.children, targetPath, newChildren)]
        ELSE node]

\* the child nodes loadChildrenForFolder builds from a listing
childNodes(children, exp) == [i \in 1..Len(children) |-> Node(children[i], children[i].path \in exp)]

RECURSIVE updateNodeExpansion(_, _)
updateNodeExpansion(node, targetPath) ==
    IF node.entry.path = targetPath
    THEN [node EXCEPT !.isExpanded = ~node.isExpanded]
    ELSE [node EXCEPT !.children =
            [i \in 1..Len(node.children) |-> updateNodeExpansion(node.children[i], targetPath)]]

\* entries.find(e => e.path === p), then findNodeByPath(fileTree, p)?.entry
lookupEntry(es, tree, p) ==
    LET e == Find(es, LAMBDA x : x.path = p, NoEntry)
    IN IF e # NoEntry THEN e ELSE findNodeByPath(tree, p).entry

\* the nodes the tree renders: a node is on screen when all its ancestors are expanded
RECURSIVE Rendered(_)
Rendered(nodes) ==
    IF nodes = <<>> THEN {}
    ELSE LET node == Head(nodes) IN
         {node.entry.path}
           \cup (IF node.entry.is_dir /\ node.isExpanded THEN Rendered(node.children) ELSE {})
           \cup Rendered(Tail(nodes))

----------------------------------------------------------------------------
(* Drag Controller (enhanced-sidebar.tsx:273-414) *)

NoLine == [position |-> "none", path |-> NoPath]

\* pointer samples: displacement in px, time in ms, height within a row in percent
Dists == {0, 10, 20}
Times == {0, 100, 220, 300}
Heights == {10, 40, 90}

DragState == [isDragging |-> isDragging, draggedItem |-> draggedItem,
              dragOverTarget |-> dragOverTarget, insertionLine |-> insertionLine,
              dragStartPos |-> dragStartPos, dragStartTime |-> dragStartTime]

handleMouseDown(ds) == [ds EXCEPT !.dragStartPos = TRUE, !.dragStartTime = TRUE]

FileThreshold == 5
DirThreshold == 15
FileMinTime == 50
DirMinTime == 200

handleMouseMove(ds, es, filePath, dist, timeElapsed) ==
    IF ~ds.dragStartPos \/ ~ds.dragStartTime \/ ds.isDragging THEN ds
    ELSE LET entry == Find(es, LAMBDA x : x.path = filePath, NoEntry)
             threshold == IF entry.is_dir THEN DirThreshold ELSE FileThreshold
             minTime == IF entry.is_dir THEN DirMinTime ELSE FileMinTime
         IN IF dist > threshold /\ timeElapsed > minTime
            THEN [ds EXCEPT !.isDragging = TRUE, !.draggedItem = filePath]
            ELSE ds

handleMouseEnter(ds, es, tree, targetPath, relY, context) ==
    IF ~ds.isDragging \/ ds.draggedItem = NoPath THEN ds
    ELSE LET targetEntry == lookupEntry(es, tree, targetPath) IN
         IF targetEntry # NoEntry /\ targetPath # ds.draggedItem /\ context = "tree"
         THEN IF targetEntry.is_dir
              THEN IF relY < 25
                   THEN [ds EXCEPT !.dragOverTarget = NoPath,
                                   !.insertionLine = [position |-> "before", path |-> targetPath]]
                   ELSE IF relY > 75
                   THEN [ds EXCEPT !.dragOverTarget = NoPath,
                                   !.insertionLine = [position |-> "after", path |-> targetPath]]
                   ELSE [ds EXCEPT !.dragOverTarget = targetPath, !.insertionLine = NoLine]
              ELSE [ds EXCEPT !.dragOverTarget = NoPath,
                              !.insertionLine = [position |-> IF relY < 50 THEN "before" ELSE "after",
                                                 path |-> targetPath]]
         ELSE [ds EXCEPT !.dragOverTarget = NoPath, !.insertionLine = NoLine]

handleFolderExitZoneEnter(ds, folderPath) ==
    IF ~ds.isDragging \/ ds.draggedItem = NoPath THEN ds
    ELSE IF getParentPath(ds.draggedItem) = folderPath
         THEN [ds EXCEPT !.dragOverTarget = NoPath,
                         !.insertionLine = [position |-> "after", path |-> folderPath]]
         ELSE ds

handleMouseLeave(ds) ==
    IF ~ds.isDragging THEN ds
    ELSE [ds EXCEPT !.dragOverTarget = NoPath, !.insertionLine = NoLine]

\* the "Reset drag state" block of handleMouseUp (468-475); draggedItem is cleared by a timer
resetDrag(ds) ==
    [ds EXCEPT !.isDragging = FALSE, !.dragOverTarget = NoPath, !.insertionLine = NoLine,
               !.dragStartPos = FALSE, !.dragStartTime = FALSE]

\* a global reset that leaves the insertion marker and the hovered target
resetDragGlobalKeepsMarker(ds) ==
    [ds EXCEPT !.isDragging = FALSE, !.draggedItem = NoPath,
               !.dragStartPos = FALSE, !.dragStartTime = FALSE]

\* the reset of handleGlobalMouseUp (590-597)
resetDragGlobal(ds) == [resetDrag(ds) EXCEPT !.draggedItem = NoPath]

----------------------------------------------------------------------------
(* What is on screen (the JSX of TreeNode, 650-658 and 743-758) *)

NodeShown(p) == ~isLoading /\ p \in Rendered(fileTree)

ExitZoneShown(F) ==
    /\ NodeShown(F)
    /\ LET node == findNodeByPath(fileTree, F) IN node.entry.is_dir /\ node.isExpanded
    /\ isDragging /\ draggedItem # NoPath /\ getParentPath(draggedItem) = F

Loc(k, p) == [kind |-> k, path |-> p]
Background == Loc("bg", NoPath)
Outside == Loc("out", NoPath)

LocShown(l) ==
    CASE l.kind = "node" -> NodeShown(l.path)
      [] l.kind = "exit" -> ExitZoneShown(l.path)
      [] OTHER -> TRUE

\* the element under the pointer now: a row or zone that has been unmounted leaves the background
Here == IF LocShown(at) THEN at ELSE Background

----------------------------------------------------------------------------
(* Move Engine (enhanced-sidebar.tsx:416-599) *)

\* An Entry Source call in flight together with what its caller does when it returns.
\*   kind  : "rename" | "reorder" | "delete" | "listRoot" | "listDir"
\*   path  : the source of a rename / reorder, the directory of a listing
\*   dst   : the new path of a rename; the directory of a reorder
\*   tgt, pos : the target and position handed to reorderEntries
\*   old, new : the path the gesture dragged and its new path (NoPath for a plain reorder);
\*           old is the path handed to deleteItem
\*   renamed, refreshed : the operation's rename has succeeded / its loadEntries() has started
\*   sel, exp : selectedNote and expandedPaths as closed over by the calling handler
\*   via   : "node" when handleMouseUp awaits the operation, "global" otherwise
\*   next  : "refresh" | "reorder" (call after a rename), "op" | "del" | "none" (after a root
\*           listing)
\*   how, target : the placement the gesture resolved to
\*   had   : (history) the children the folder of a listing had in the tree when the refresh
\*           that issued the listing began
Call0 == [kind |-> "none", path |-> NoPath, dst |-> NoPath, tgt |-> NoPath, pos |-> "none",
          old |-> NoPath, new |-> NoPath, renamed |-> FALSE, refreshed |-> FALSE, sel |-> NoPath, exp |-> {}, phase |-> "sent", resp |-> <<>>,
          via |-> "none", next |-> "none", how |-> "none", target |-> NoPath, had |-> {}]

listDirCall(folderPath, exp) == [Call0 EXCEPT !.kind = "listDir", !.path = folderPath, !.exp = exp]

\* the paths of node.children of the node at folderPath
childPaths(tree, folderPath) ==
    LET node == findNodeByPath(tree, folderPath)
    IN IF node = NoNode THEN {} ELSE { node.children[i].entry.path : i \in 1..Len(node.children) }

\* loadEntries() called by an operation c that has just succeeded
refreshCall(c) ==
    [c EXCEPT !.kind = "listRoot", !.path = Root, !.dst = NoPath, !.tgt = NoPath, !.pos = "none",
              !.next = "op", !.refreshed = TRUE]

\* a drop that appends the whole source path to the target folder
performDropFullPath(sourcePath, targetFolderPath, sel, exp, via) ==
    LET newPath == targetFolderPath \o sourcePath
    IN [Call0 EXCEPT !.kind = "rename", !.path = sourcePath, !.dst = newPath, !.old = sourcePath,
                     !.new = newPath, !.sel = sel, !.exp = exp, !.via = via, !.next = "refresh"]

performDrop(sourcePath, targetFolderPath, sel, exp, via) ==
    LET fileName == baseName(sourcePath)
        newPath == targetFolderPath \o <<fileName>>
    IN [Call0 EXCEPT !.kind = "rename", !.path = sourcePath, !.dst = newPath, !.old = sourcePath,
                     !.new = newPath, !.sel = sel, !.exp = exp, !.via = via, !.next = "refresh"]

performReorder(sourcePath, insertionInfo, es, sel, exp, via) ==
    LET sourceDir == getParentPath(sourcePath)
        draggedEntry == Find(es, LAMBDA x : x.path = insertionInfo.path, NoEntry)
        fileName == baseName(sourcePath)
        targetDir == getParentPath(insertionInfo.path)
        newPath == targetDir \o <<fileName>>
        base == [Call0 EXCEPT !.path = sourcePath, !.sel = sel, !.exp = exp, !.via = via]
    IN IF draggedEntry.is_dir /\ sourceDir = insertionInfo.path
       THEN \* folder exit: rename, then reorderEntries, then loadEntries
            [base EXCEPT !.kind = "rename", !.dst = newPath, !.old = sourcePath, !.new = newPath,
                         !.next = "reorder",
                         !.tgt = insertionInfo.path, !.pos = insertionInfo.position]
       ELSE IF targetDir # sourceDir
       THEN [base EXCEPT !.kind = "rename", !.dst = newPath, !.old = sourcePath, !.new = newPath,
                         !.next = "refresh"]
       ELSE [base EXCEPT !.kind = "reorder", !.dst = sourceDir, !.tgt = insertionInfo.path,
                         !.pos = insertionInfo.position, !.next = "refresh"]

\* reorderEntries(targetDir || null, newPath, insertionInfo.path, position) after the rename c
exitReorderCall(c) ==
    [c EXCEPT !.kind = "reorder", !.path = c.dst, !.dst = getParentPath(c.tgt), !.next = "refresh"]

\* a toggle that lists the folder on every expansion
toggleFolderAlwaysLoads(tree, exp, path) ==
    LET currentNode == findNodeByPath(tree, path)
        isCurrentlyExpanded == currentNode.isExpanded
    IN [tree |-> [i \in 1..Len(tree) |-> updateNodeExpansion(tree[i], path)],
        exp |-> IF isCurrentlyExpanded THEN exp \ {path} ELSE exp \cup {path},
        call |-> IF ~isCurrentlyExpanded THEN listDirCall(path, exp) ELSE Call0]

toggleFolder(tree, exp, path) ==
    LET currentNode == findNodeByPath(tree, path)
        isCurrentlyExpanded == currentNode.isExpanded
        hasChildrenLoaded == Len(currentNode.children) > 0
    IN [tree |-> [i \in 1..Len(tree) |-> updateNodeExpansion(tree[i], path)],
        exp |-> IF isCurrentlyExpanded THEN exp \ {path} ELSE exp \cup {path},
        call |-> IF ~isCurrentlyExpanded /\ ~hasChildrenLoaded THEN listDirCall(path, exp) ELSE Call0]

DirClickWindow == 250
FileClickWindow == 200

\* handleMouseUp(targetPath) up to its first await; how is the placement of the gesture
handleMouseUp(ds, es, tree, exp, sel, targetPath, timeElapsed, how) ==
    LET same == [ds |-> ds, tree |-> tree, exp |-> exp, sel |-> sel, call |-> Call0,
                 engine |-> 0, clicks |-> 0, timer |-> 0]
    IN
    IF ~ds.isDragging \/ ds.draggedItem = NoPath
    THEN LET entry == lookupEntry(es, tree, targetPath)
             isQuickClick == IF entry.is_dir THEN timeElapsed < DirClickWindow
                             ELSE timeElapsed < FileClickWindow
             armed == ds.dragStartTime /\ ds.dragStartPos
             cleared == [ds EXCEPT !.dragStartPos = FALSE, !.dragStartTime = FALSE]
         IN IF armed /\ isQuickClick /\ entry.is_dir
            THEN LET tg == toggleFolder(tree, exp, targetPath)
                 IN [same EXCEPT !.ds = cleared, !.tree = tg.tree, !.exp = tg.exp,
                                 !.call = tg.call, !.clicks = 1]
            ELSE IF armed /\ isQuickClick /\ entry # NoEntry /\ isMarkdown(entry)
            THEN [same EXCEPT !.ds = cleared, !.sel = targetPath, !.clicks = 1]
            ELSE [same EXCEPT !.ds = cleared]
    ELSE IF ds.insertionLine # NoLine
    THEN [same EXCEPT !.engine = 1,
            !.call = [performReorder(ds.draggedItem, ds.insertionLine, es, sel, exp, "node")
                        EXCEPT !.how = how, !.target = ds.insertionLine.path]]
    ELSE IF targetPath # ds.draggedItem /\ lookupEntry(es, tree, targetPath).is_dir
    THEN [same EXCEPT !.engine = 1,
            !.call = [performDrop(ds.draggedItem, targetPath, sel, exp, "node")
                        EXCEPT !.how = how, !.target = targetPath]]
    ELSE [same EXCEPT !.ds = resetDrag(ds), !.timer = 1]

\* a root drop that does not look whether the pointer is over the sidebar
rootDropAnywhere(ds, here) ==
    /\ ds.isDragging /\ ds.insertionLine = NoLine
    /\ here.kind # "node"
    /\ ds.draggedItem # NoPath
    /\ Len(ds.draggedItem) > 1

\* a root drop that does not look for a row under the pointer
rootDropOnRows(ds, here) ==
    /\ ds.isDragging /\ ds.insertionLine = NoLine
    /\ here.kind \in {"node", "exit", "bg"}
    /\ ds.draggedItem # NoPath
    /\ Len(ds.draggedItem) > 1

\* handleGlobalMouseUp for a pointer-up over `here`; ds is the state its closure holds
rootDrop(ds, here) ==
    /\ ds.isDragging /\ ds.insertionLine = NoLine
    /\ here.kind \in {"node", "exit", "bg"}         \* sidebar.contains(e.target)
    /\ here.kind # "node"                           \* !closest('[data-file-path]')
    /\ ds.draggedItem # NoPath
    /\ Len(ds.draggedItem) > 1                      \* fileName !== draggedItem

handleGlobalMouseUp(ds, here, sel, exp) ==
    [acts |-> ds.isDragging,
     call |-> IF rootDrop(ds, here)
              THEN [performDrop(ds.draggedItem, Root, sel, exp, "global")
                      EXCEPT !.how = "root", !.target = Root]
              ELSE Call0,
     engine |-> IF rootDrop(ds, here) THEN 1 ELSE 0]

----------------------------------------------------------------------------
(* The sidebar as a state machine *)

NoLast == [act |-> "none", c |-> Call0, alert |-> FALSE, note |-> <<>>,
           ran |-> {}, engine |-> 0, clicks |-> 0, where |-> "none", dragged |-> NoPath,
           relY |-> 0, dist |-> 0, t |-> 0, started |-> FALSE, armed |-> FALSE,
           pressed |-> NoPath, over |-> NoPath, clicked |-> NoPath]

SetDrag(ds) ==
    /\ isDragging' = ds.isDragging
    /\ draggedItem' = ds.draggedItem
    /\ dragOverTarget' = ds.dragOverTarget
    /\ insertionLine' = ds.insertionLine
    /\ dragStartPos' = ds.dragStartPos
    /\ dragStartTime' = ds.dragStartTime

dragVars == <<isDragging, draggedItem, dragOverTarget, insertionLine, dragStartPos, dragStartTime>>

\* the component after mount: useEffect has called loadEntries() (771-773)
SidebarInit ==
    /\ fs = InitVault /\ orderRec = <<>>
    /\ entries = <<>> /\ isLoading = TRUE /\ fileTree = <<>>
    /\ draggedItem = NoPath /\ dragOverTarget = NoPath /\ insertionLine = NoLine
    /\ isDragging = FALSE /\ dragStartPos = FALSE /\ dragStartTime = FALSE
    /\ expandedPaths = {} /\ selectedNote = NoPath
    /\ button = "up" /\ at = Loc("none", NoPath) /\ pressed = NoPath
    /\ calls = SetToBag({[Call0 EXCEPT !.kind = "listRoot", !.path = Root]})
    /\ timers = 0 /\ gestures = 0 /\ refreshed = "none" /\ last = NoLast

\* pointer-down on a row of the tree: handleMouseDown.  The handler has no guard of its own;
\* maxGestures and maxPending bound the behaviours explored.
PointerDownWithin(p, maxGestures, maxPending) ==
    /\ button = "up" /\ gestures < maxGestures
    /\ BagCardinality(calls) + timers <= maxPending
    /\ NodeShown(p)
    /\ (~dragStartPos /\ ~isDragging) \/ Here = Loc("node", p)
    /\ SetDrag(handleMouseDown(DragState))
    /\ button' = "down" /\ at' = Loc("node", p) /\ pressed' = p
    /\ gestures' = gestures + 1 /\ last' = NoLast
    /\ UNCHANGED <<fs, orderRec, entries, isLoading, fileTree, expandedPaths, selectedNote,
                   calls, timers, refreshed>>
    /\ UNCHANGED orderVars

PointerDown(p) == PointerDownWithin(p, MaxGestures, MaxPending)

\* a pointer-down while an earlier operation is still in flight
PointerDownOverlapping(p) == PointerDownWithin(p, OverlapGestures, OverlapPending)

\* the pointer moves to (or within) l: mouseleave, mouseenter, mousemove in DOM order.
\* dist and t are the displacement from, and the time since, the recorded start; relY is
\* the height of the pointer within the row.  An input the handlers do not read is fixed.
PointerMove(l, relY, dist, t) ==
    /\ button = "down" \/ dragStartPos \/ isDragging
    /\ l.kind \in {"node", "exit", "bg", "out"} /\ LocShown(l)
    /\ LET here == Here
           moved == l # here \/ at.kind = "none"
           ds0 == DragState
           ds1 == IF moved /\ here.kind \in {"node", "exit"} /\ at.kind # "none"
                  THEN handleMouseLeave(ds0) ELSE ds0
           ds2 == IF moved /\ l.kind = "node"
                  THEN handleMouseEnter(ds1, entries, fileTree, l.path, relY, "tree")
                  ELSE IF moved /\ l.kind = "exit" THEN handleFolderExitZoneEnter(ds1, l.path)
                  ELSE ds1
           ds3 == IF l.kind = "node" THEN handleMouseMove(ds2, entries, l.path, dist, t) ELSE ds2
       IN /\ SetDrag(ds3)
          /\ last' = IF l.kind = "node" /\ ds3.isDragging /\ l.path # ds3.draggedItem
                     THEN [NoLast EXCEPT !.act = "move", !.where = l.kind, !.relY = relY]
                     ELSE IF l = Loc("node", pressed) /\ ds2.dragStartPos /\ ds2.dragStartTime
                                                      /\ ~ds2.isDragging
                     THEN [NoLast EXCEPT !.act = "measure", !.where = l.kind, !.dist = dist,
                                         !.t = t, !.started = ds3.isDragging]
                     ELSE NoLast
    /\ at' = l
    /\ UNCHANGED <<fs, orderRec, entries, isLoading, fileTree, expandedPaths, selectedNote,
                   button, pressed, calls, timers, gestures, refreshed>>
    /\ UNCHANGED orderVars

\* pointer-up: the onMouseUp of the row or exit zone under the pointer, then the document
\* listener.  flushed: the document listener already closes over the state handleMouseUp set.
PointerUp(t, flushed) ==
    /\ button = "down"
    /\ LET here == Here
           ds0 == DragState
           dragging == ds0.isDragging /\ ds0.draggedItem # NoPath
           how == IF here.kind = "exit" THEN "exit"
                  ELSE IF ds0.insertionLine # NoLine THEN ds0.insertionLine.position
                  ELSE "inside"
           none == [ds |-> ds0, tree |-> fileTree, exp |-> expandedPaths, sel |-> selectedNote,
                    call |-> Call0, engine |-> 0, clicks |-> 0, timer |-> 0]
           hm == IF here.kind \in {"node", "exit"}
                 THEN handleMouseUp(ds0, entries, fileTree, expandedPaths, selectedNote,
                                    here.path, t, how)
                 ELSE none
           hg == handleGlobalMouseUp(IF flushed THEN hm.ds ELSE ds0, here, selectedNote,
                                     expandedPaths)
           dsEnd == IF hg.acts THEN resetDragGlobal(hm.ds) ELSE hm.ds
           issuedNow == { c \in {hm.call, hg.call} : c.kind # "none" }
       IN /\ dragging => t = 0
          /\ flushed => hm.ds.isDragging # ds0.isDragging
          /\ SetDrag(dsEnd)
          /\ fileTree' = hm.tree /\ expandedPaths' = hm.exp /\ selectedNote' = hm.sel
          /\ calls' = calls (+) SetToBag(issuedNow)
          /\ timers' = timers + hm.timer
          /\ refreshed' = IF hm.engine + hg.engine > 0 THEN "none" ELSE refreshed
          /\ last' = [NoLast EXCEPT !.act = "pointerUp",
                                     !.ran = (IF here.kind \in {"node", "exit"} THEN {"node"} ELSE {})
                                                \cup (IF hg.acts THEN {"document"} ELSE {}),
                                     !.engine = hm.engine + hg.engine, !.clicks = hm.clicks,
                                     !.where = here.kind,
                                     !.c = IF hg.call.kind # "none" THEN hg.call ELSE hm.call,
                                     !.dragged = IF dragging THEN ds0.draggedItem ELSE NoPath,
                                     !.armed = ~dragging /\ ds0.dragStartPos /\ ds0.dragStartTime,
                                     !.t = t, !.pressed = pressed, !.over = here.path,
                                     !.clicked = IF hm.clicks = 1 THEN here.path ELSE NoPath]
          /\ at' = IF dsEnd.dragStartPos \/ dsEnd.isDragging THEN here ELSE Loc("none", NoPath)
    /\ button' = "up" /\ pressed' = NoPath
    /\ UNCHANGED <<fs, orderRec, entries, isLoading, gestures>>
    /\ UNCHANGED orderVars

Take(c) == calls (-) SetToBag({c})
InFlight == BagToSet(calls)

\* a call succeeds only when it is valid; any call may fail (I/O failure)
Outcome(ok, valid) == ok => valid

\* the continuation of handleMouseUp after `await performReorder / performDrop` (468-480)
AfterAwait(c) ==
    IF c.via = "node"
    THEN SetDrag(resetDrag(DragState)) /\ timers' = timers + 1
    ELSE UNCHANGED dragVars /\ timers' = timers

\* the backend answers a listing: the snapshot is taken now, the response arrives later
ServeList(c, ok) ==
    /\ c \in InFlight /\ c.kind \in {"listRoot", "listDir"} /\ c.phase = "sent"
    /\ Outcome(ok, DirExists(fs, c.path))
    /\ calls' = Take(c) (+) SetToBag({[c EXCEPT !.phase = IF ok THEN "ok" ELSE "fail",
                                               !.resp = IF ok THEN listEntries(fs, c.path) ELSE <<>>]})
    /\ refreshed' = IF ok THEN refreshed ELSE "failed"
    /\ last' = NoLast
    /\ UNCHANGED <<fs, orderRec, entries, isLoading, fileTree, expandedPaths, selectedNote,
                   button, at, pressed, timers, gestures>>
    /\ UNCHANGED dragVars /\ UNCHANGED orderVars

\* loadEntries resumes after `await listEntries()` (77-95), and with it its awaiting caller
DeliverRoot(c) ==
    /\ c \in InFlight /\ c.kind = "listRoot" /\ c.phase \in {"ok", "fail"}
    /\ IF c.phase = "ok"
       THEN /\ entries' = c.resp
            /\ fileTree' = buildFileTree(c.resp, c.exp)
            /\ calls' = Take(c) (+) [x \in { [listDirCall(p, c.exp) EXCEPT !.had = childPaths(fileTree, p)] :
                                                p \in reExpandTargets(c.resp, c.exp) } |-> 2]
       ELSE /\ calls' = Take(c)
            /\ UNCHANGED <<entries, fileTree>>
    /\ isLoading' = FALSE
    /\ IF c.next = "op"
       THEN /\ IF c.sel = c.old /\ c.old # NoPath
               THEN /\ selectedNote' = c.new
                    /\ last' = [NoLast EXCEPT !.act = "opEnd", !.c = c, !.note = <<c.old, c.new>>]
               ELSE /\ UNCHANGED selectedNote
                    /\ last' = [NoLast EXCEPT !.act = "opEnd", !.c = c]
            /\ AfterAwait(c)
       ELSE IF c.next = "del"
       THEN \* deleteItem resumes after `await loadEntries()` (229-231)
            /\ selectedNote' = IF c.sel = c.old THEN NoPath ELSE selectedNote
            /\ last' = [NoLast EXCEPT !.act = "delEnd", !.c = c]
            /\ UNCHANGED timers /\ UNCHANGED dragVars
       ELSE /\ UNCHANGED <<selectedNote, timers>> /\ UNCHANGED dragVars
            /\ last' = NoLast
    /\ UNCHANGED <<fs, orderRec, expandedPaths, button, at, pressed, gestures, refreshed>>
    /\ UNCHANGED orderVars

\* loadChildrenForFolder resumes after `await listEntries(folderPath)` (178-187)
DeliverDir(c) ==
    /\ c \in InFlight /\ c.kind = "listDir" /\ c.phase \in {"ok", "fail"}
    /\ fileTree' = IF c.phase = "ok"
                   THEN replaceChildrenForPath(fileTree, c.path, childNodes(c.resp, c.exp))
                   ELSE fileTree
    /\ calls' = Take(c)
    \* the catch block (185-187) logs with console.error and calls no alert
    /\ last' = IF c.phase = "ok" THEN NoLast
               ELSE [NoLast EXCEPT !.act = "listFail", !.c = c, !.alert = FALSE]
    /\ UNCHANGED <<fs, orderRec, entries, isLoading, expandedPaths, selectedNote, button, at,
                   pressed, timers, gestures, refreshed>>
    /\ UNCHANGED dragVars /\ UNCHANGED orderVars

\* renameEntry returns to performDrop (490) or performReorder (519, 546)
RenameDone(c, ok) ==
    /\ c \in InFlight /\ c.kind = "rename"
    /\ Outcome(ok, renameValid(fs, c.path, c.dst))
    /\ IF ok
       THEN /\ fs' = renameEffect(fs, c.path, c.dst)
            /\ orderRec' = renameRecords(orderRec, c.path, c.dst)
            /\ LET d == [c EXCEPT !.renamed = TRUE] IN
               IF c.next = "reorder"
               THEN /\ calls' = Take(c) (+) SetToBag({exitReorderCall(d)})
                    /\ UNCHANGED <<isLoading, refreshed>>
               ELSE /\ calls' = Take(c) (+) SetToBag({refreshCall(d)})
                    /\ isLoading' = TRUE /\ refreshed' = "clean"
            /\ last' = [NoLast EXCEPT !.act = "renameOk", !.c = c]
            /\ UNCHANGED timers /\ UNCHANGED dragVars
       ELSE /\ calls' = Take(c)
            /\ AfterAwait(c)
            /\ last' = [NoLast EXCEPT !.act = "renameFail", !.c = c, !.alert = TRUE]
            /\ UNCHANGED <<fs, orderRec, isLoading, refreshed>>
    /\ UNCHANGED <<entries, fileTree, expandedPaths, selectedNote, button, at, pressed,
                   gestures>>
    /\ UNCHANGED orderVars

\* reorderEntries returns to performReorder (523, 557)
ReorderDone(c, ok) ==
    /\ c \in InFlight /\ c.kind = "reorder"
    /\ Outcome(ok, reorderValid(fs, orderRec, c.dst, c.path, c.tgt))
    /\ IF ok
       THEN /\ orderRec' = reorderEffect(fs, orderRec, c.dst, c.path, c.tgt, c.pos)
            /\ calls' = Take(c) (+) SetToBag({refreshCall(c)})
            /\ isLoading' = TRUE /\ refreshed' = "clean"
            /\ last' = [NoLast EXCEPT !.act = "reorderOk", !.c = c]
            /\ UNCHANGED timers /\ UNCHANGED dragVars
       ELSE /\ calls' = Take(c)
            /\ AfterAwait(c)
            /\ last' = [NoLast EXCEPT !.act = "reorderFail", !.c = c, !.alert = TRUE]
            /\ UNCHANGED <<orderRec, isLoading, refreshed>>
    /\ UNCHANGED <<fs, entries, fileTree, expandedPaths, selectedNote, button, at, pressed,
                   gestures>>
    /\ UNCHANGED orderVars

\* a click on the delete button of the row at p, confirmed: deleteItem up to its first await
\* (222-227).  The button lies within the row, so the click follows a pointer-down and a
\* pointer-up on that row.
DeleteClick(p) ==
    /\ button = "up" /\ NodeShown(p)
    /\ last.act = "pointerUp" /\ last.armed /\ last.where = "node"
    /\ last.pressed = p /\ last.over = p
    /\ calls' = calls (+) SetToBag({[Call0 EXCEPT !.kind = "delete", !.path = p, !.old = p,
                                                   !.sel = selectedNote, !.exp = expandedPaths]})
    /\ last' = [NoLast EXCEPT !.act = "deleteClick"]
    /\ UNCHANGED <<fs, orderRec, entries, isLoading, fileTree, expandedPaths, selectedNote,
                   button, at, pressed, timers, gestures, refreshed>>
    /\ UNCHANGED dragVars /\ UNCHANGED orderVars

\* deleteEntry returns to deleteItem (227-228, 232-235)
DeleteDone(c, ok) ==
    /\ c \in InFlight /\ c.kind = "delete"
    /\ Outcome(ok, deleteValid(fs, c.path))
    /\ IF ok
       THEN /\ fs' = deleteEffect(fs, c.path)
            /\ orderRec' = deleteRecords(orderRec, c.path)
            /\ calls' = Take(c) (+) SetToBag({[refreshCall(c) EXCEPT !.next = "del"]})
            /\ isLoading' = TRUE /\ refreshed' = "clean"
            /\ last' = [NoLast EXCEPT !.act = "deleteOk", !.c = c]
       ELSE /\ calls' = Take(c)
            /\ last' = [NoLast EXCEPT !.act = "deleteFail", !.c = c, !.alert = TRUE]
            /\ UNCHANGED <<fs, orderRec, isLoading, refreshed>>
    /\ UNCHANGED <<entries, fileTree, expandedPaths, selectedNote, button, at, pressed,
                   timers, gestures>>
    /\ UNCHANGED dragVars /\ UNCHANGED orderVars

\* setTimeout(() => setDraggedItem(null), 50) fires (478-480)
TimerFires ==
    /\ timers > 0
    /\ timers' = timers - 1
    /\ draggedItem' = NoPath
    /\ last' = NoLast
    /\ UNCHANGED <<fs, orderRec, entries, isLoading, fileTree, dragOverTarget, insertionLine,
                   isDragging, dragStartPos, dragStartTime, expandedPaths, selectedNote, button,
                   at, pressed, calls, gestures, refreshed>>
    /\ UNCHANGED orderVars

\* where the pointer can go: the rows and exit zones on screen, the sidebar background, outside
Places ==
    IF button = "down" \/ dragStartPos \/ isDragging
    THEN { l \in { Loc("node", p) : p \in Rendered(fileTree) }
                   \cup { Loc("exit", p) : p \in Rendered(fileTree) } : LocShown(l) }
            \cup {Background, Outside}
    ELSE {}

\* the samples that matter at l: the height over a row while dragging (a file's row has two
\* zones, so one sample of its upper half is enough), the displacement and the time only when
\* mousemove measures them
HeightsAt(l) ==
    IF l.kind = "node" /\ isDragging
    THEN IF Entry(l.path).is_dir THEN Heights ELSE { h \in Heights : h > 25 }
    ELSE {10}
Measures(l) == l.kind = "node" /\ dragStartPos /\ dragStartTime /\ ~isDragging
\* <<displacement, time>>: every pair over the pressed row; elsewhere one pair below every
\* bound and one above every bound
SamplesAt(l) ==
    IF ~Measures(l) THEN {<<0, 0>>}
    ELSE IF l.path = pressed THEN Dists \X { t \in Times : t < DirClickWindow }
    ELSE {<<0, 0>>, <<20, 220>>}

NoOp == [dir |-> Root, src |-> "", tgt |-> "", pos |-> "none", order |-> <<>>, names |-> <<>>,
         map |-> <<>>]
NoOLast == [act |-> "none", dir |-> Root, ok |-> FALSE, alert |-> FALSE, names |-> <<>>,
            kids |-> <<>>, saved |-> <<>>, shown |-> <<>>, op |-> NoOp, before |-> <<>>]

\* the dnd-kit sidebar is not mounted
OrderIdle ==
    /\ oKids = [d \in OrderDirs |-> {}] /\ oFiles = [d \in OrderDirs |-> NoFile]
    /\ orderMap = <<>> /\ oTree = [d \in OrderDirs |-> <<>>]
    /\ oPc = "idle" /\ oOp = NoOp /\ oWrites = 0 /\ oSaved = <<>> /\ oLast = NoOLast

Init == SidebarInit /\ OrderIdle

Next ==
    \/ \E p \in Rendered(fileTree) : PointerDown(p)
    \/ \E l \in Places : \E relY \in HeightsAt(l), s \in SamplesAt(l) :
            PointerMove(l, relY, s[1], s[2])
    \/ \E t \in Times, flushed \in BOOLEAN : PointerUp(t, flushed)
    \/ \E c \in InFlight, ok \in BOOLEAN : ServeList(c, ok)
    \/ \E c \in InFlight : DeliverRoot(c)
    \/ \E c \in InFlight : DeliverDir(c)
    \/ \E c \in InFlight, ok \in BOOLEAN : RenameDone(c, ok)
    \/ \E c \in InFlight, ok \in BOOLEAN : ReorderDone(c, ok)
    \/ TimerFires

Spec == Init /\ [][Next]_vars

\* the sidebar with gestures that begin while an operation is in flight
OverlapNext ==
    \/ \E p \in Rendered(fileTree) : PointerDownOverlapping(p)
    \/ \E l \in Places : \E relY \in HeightsAt(l), s \in SamplesAt(l) :
            PointerMove(l, relY, s[1], s[2])
    \/ \E t \in Times, flushed \in BOOLEAN : PointerUp(t, flushed)
    \/ \E c \in InFlight, ok \in BOOLEAN : ServeList(c, ok)
    \/ \E c \in InFlight : DeliverRoot(c)
    \/ \E c \in InFlight : DeliverDir(c)
    \/ \E c \in InFlight, ok \in BOOLEAN : RenameDone(c, ok)
    \/ \E c \in InFlight, ok \in BOOLEAN : ReorderDone(c, ok)
    \/ TimerFires

OverlapSpec == Init /\ [][OverlapNext]_vars

\* the sidebar with its delete buttons
DeleteNext ==
    \/ \E p \in Rendered(fileTree) : PointerDown(p)
    \/ \E l \in Places : \E relY \in HeightsAt(l), s \in SamplesAt(l) :
            PointerMove(l, relY, s[1], s[2])
    \/ \E t \in Times, flushed \in BOOLEAN : PointerUp(t, flushed)
    \/ \E p \in Rendered(fileTree) : DeleteClick(p)
    \/ \E c \in InFlight, ok \in BOOLEAN : DeleteDone(c, ok)
    \/ \E c \in InFlight, ok \in BOOLEAN : ServeList(c, ok)
    \/ \E c \in InFlight : DeliverRoot(c)
    \/ \E c \in InFlight : DeliverDir(c)
    \/ \E c \in InFlight, ok \in BOOLEAN : RenameDone(c, ok)
    \/ \E c \in InFlight, ok \in BOOLEAN : ReorderDone(c, ok)
    \/ TimerFires

DeleteSpec == Init /\ [][DeleteNext]_vars

----------------------------------------------------------------------------
(* buildFileTree on its own, over listings that hold nested entries and order files *)

ListingPaths == { <<"P">>, <<"r.md">>, <<"P", "S">>, <<"P", "a.md">>,
                  <<".tau_order.json">>, <<"P", ".tau_order.json">> }

\* the listings of up to MaxListing entries, no path twice
Listings ==
    { es \in UNION { [1..k -> { Entry(q) : q \in ListingPaths }] : k \in 0..MaxListing } :
        \A i, j \in 1..Len(es) : i # j => es[i] # es[j] }

\* setEntries(vaultEntries) has run (78); buildFileTree(vaultEntries) is about to
BuildInit ==
    /\ fs = InitVault /\ orderRec = <<>>
    /\ entries \in Listings /\ isLoading = TRUE /\ fileTree = <<>>
    /\ draggedItem = NoPath /\ dragOverTarget = NoPath /\ insertionLine = NoLine
    /\ isDragging = FALSE /\ dragStartPos = FALSE /\ dragStartTime = FALSE
    /\ expandedPaths \in SUBSET {<<"P">>} /\ selectedNote = NoPath
    /\ button = "up" /\ at = Loc("none", NoPath) /\ pressed = NoPath
    /\ calls = EmptyBag /\ timers = 0 /\ gestures = 0 /\ refreshed = "none" /\ last = NoLast
    /\ OrderIdle

\* buildFileTree(entries) (98-146): the root list, and a lazy load for every expanded folder
\* that the listing holds
BuildTree ==
    /\ isLoading /\ last.act = "none"
    /\ fileTree' = buildFileTree(entries, expandedPaths)
    /\ calls' = calls (+) SetToBag({ listDirCall(q, expandedPaths) :
                                        q \in reExpandTargets(entries, expandedPaths) })
    /\ last' = [NoLast EXCEPT !.act = "build"]
    /\ UNCHANGED <<fs, orderRec, entries, isLoading, expandedPaths, selectedNote, button, at,
                   pressed, timers, gestures, refreshed>>
    /\ UNCHANGED dragVars /\ UNCHANGED orderVars

BuildNext == BuildTree

BuildSpec == BuildInit /\ [][BuildNext]_vars

----------------------------------------------------------------------------
(* The Order Store and the reorder of the dnd-kit sidebar as a state machine *)

OrderVault == { <<n>> : n \in oKids[Root] } \cup { <<"D", n>> : n \in oKids[<<"D">>] }

NameLists == UNION { [1..k -> OrderNames] : k \in 0..MaxLen }

namesOf(nodes) == [i \in 1..Len(nodes) |-> nodes[i].entry.name]
entryNames(es) == [i \in 1..Len(es) |-> es[i].name]

\* the sorted child list of loadChildrenForFolder (215-234); map is the orderMap it closes over
sortedChildren(files, map, folderPath, ok) ==
    LET children == listEntries(OrderVault, folderPath)
        loaded == loadOrder(files, map, folderPath, ok)
        saved == IF folderPath \in DOMAIN map THEN map[folderPath] ELSE loaded.names
    IN [kids |-> children, saved |-> saved, shown |-> reconcile(children, saved),
        map |-> IF folderPath \in DOMAIN map THEN map ELSE loaded.map]

\* a vault with no order files; the sidebar has not listed anything yet
OrderInit ==
    /\ SidebarInit
    /\ oKids \in { k \in [OrderDirs -> SUBSET OrderNames] :
                     /\ k[Root] = {"D", "a", "q\""}
                     /\ k[<<"D">>] \in {{"a", "D", "q\""}, {"a", "c\\"}} }
    /\ oFiles = [d \in OrderDirs |-> NoFile]
    /\ orderMap = <<>> /\ oTree = [d \in OrderDirs |-> <<>>]
    /\ oPc = "idle" /\ oOp = NoOp /\ oWrites = 0 /\ oSaved = <<>> /\ oLast = NoOLast

\* saveOrder(folderPath, names) called on its own
SaveOrder(folderPath, names, ok) ==
    /\ oPc = "idle" /\ oWrites < MaxWrites
    /\ LET r == saveOrder(oFiles, orderMap, folderPath, names, ok) IN
       /\ oFiles' = r.files /\ orderMap' = r.map
       /\ oSaved' = IF ok THEN (folderPath :> names) @@ oSaved ELSE oSaved
       /\ oLast' = [NoOLast EXCEPT !.act = "save", !.dir = folderPath, !.ok = ok,
                                    !.alert = r.alert, !.names = names]
    /\ oWrites' = oWrites + 1
    /\ UNCHANGED <<oKids, oTree, oPc, oOp>> /\ UNCHANGED sidebarVars

\* loadOrder(folderPath) called on its own
LoadOrder(folderPath, ok) ==
    /\ oPc = "idle"
    /\ LET r == loadOrder(oFiles, orderMap, folderPath, ok) IN
       /\ orderMap' = r.map
       /\ oLast' = [NoOLast EXCEPT !.act = "load", !.dir = folderPath, !.ok = ok,
                                    !.names = r.names]
    /\ UNCHANGED <<oKids, oFiles, oTree, oPc, oOp, oWrites, oSaved>> /\ UNCHANGED sidebarVars

\* loadEntries() (130-141): the root list is rebuilt, folders first and then by name
LoadEntries ==
    /\ oPc = "idle"
    /\ oTree' = [oTree EXCEPT ![Root] = namesOf(buildFileTree(listEntries(OrderVault, Root), {}))]
    /\ oLast' = [NoOLast EXCEPT !.act = "entries"]
    /\ UNCHANGED <<oKids, oFiles, orderMap, oPc, oOp, oWrites, oSaved>> /\ UNCHANGED sidebarVars

\* the folder D is expanded: loadChildrenForFolder (215-234)
LoadChildren(folderPath, ok) ==
    /\ oPc = "idle" /\ folderPath # Root /\ Last(folderPath) \in Range(oTree[Root])
    /\ LET r == sortedChildren(oFiles, orderMap, folderPath, ok) IN
       /\ oTree' = [oTree EXCEPT ![folderPath] = entryNames(r.shown)]
       /\ orderMap' = r.map
       /\ oLast' = [NoOLast EXCEPT !.act = "children", !.dir = folderPath, !.kids = r.kids,
                                    !.saved = r.saved, !.shown = r.shown]
    /\ UNCHANGED <<oKids, oFiles, oPc, oOp, oWrites, oSaved>> /\ UNCHANGED sidebarVars

\* onDragEnd (628-671), a drop before / after a sibling: up to `await saveOrder`
DragEnd(folderPath, sourceName, targetName, position) ==
    /\ oPc = "idle" /\ oWrites < MaxWrites
    /\ sourceName \in Range(oTree[folderPath]) /\ targetName \in Range(oTree[folderPath])
    /\ LET order == oTree[folderPath] IN
       oOp' = [dir |-> folderPath, src |-> sourceName, tgt |-> targetName, pos |-> position,
               order |-> order, names |-> reorderNames(order, sourceName, targetName, position),
               map |-> orderMap]
    /\ oPc' = "saving" /\ oLast' = [NoOLast EXCEPT !.act = "dragEnd", !.dir = folderPath]
    /\ UNCHANGED <<oKids, oFiles, orderMap, oTree, oWrites, oSaved>> /\ UNCHANGED sidebarVars

\* saveOrder returns to onDragEnd, which then awaits loadEntries() (667-670): the root list
\* is rebuilt and an expanded folder reloaded, by handlers that close over the old orderMap
WriteDone(ok) ==
    /\ oPc = "saving"
    /\ LET r == saveOrder(oFiles, orderMap, oOp.dir, oOp.names, ok)
           d == <<"D">>
           kids == sortedChildren(r.files, oOp.map, d, TRUE)
       IN /\ oFiles' = r.files
          /\ orderMap' = IF oTree[d] # <<>> /\ d \notin DOMAIN oOp.map
                          THEN (d :> kids.saved) @@ r.map ELSE r.map
          /\ oTree' = [x \in OrderDirs |->
                          IF x = Root THEN namesOf(buildFileTree(listEntries(OrderVault, Root), {}))
                          ELSE IF oTree[x] # <<>> THEN entryNames(kids.shown) ELSE <<>>]
          /\ oSaved' = IF ok THEN (oOp.dir :> oOp.names) @@ oSaved ELSE oSaved
          /\ oLast' = [NoOLast EXCEPT !.act = IF ok THEN "writeOk" ELSE "writeFail",
                                       !.dir = oOp.dir, !.ok = ok, !.alert = r.alert,
                                       !.names = oOp.names, !.op = oOp, !.before = oTree[oOp.dir]]
    /\ oPc' = "idle" /\ oOp' = NoOp /\ oWrites' = oWrites + 1
    /\ UNCHANGED oKids /\ UNCHANGED sidebarVars

OrderNext ==
    \/ \E d \in OrderDirs, names \in NameLists, ok \in BOOLEAN : SaveOrder(d, names, ok)
    \/ \E d \in OrderDirs, ok \in BOOLEAN : LoadOrder(d, ok)
    \/ LoadEntries
    \/ \E ok \in BOOLEAN : LoadChildren(<<"D">>, ok)
    \/ \E d \in OrderDirs, sourceName \in OrderNames, targetName \in OrderNames,
          position \in {"before", "after"} : DragEnd(d, sourceName, targetName, position)
    \/ \E ok \in BOOLEAN : WriteDone(ok)

OrderSpec == OrderInit /\ [][OrderNext]_vars

----------------------------------------------------------------------------
(* Properties of the sidebar (Spec) and of the Order Store (OrderSpec) *)

\* C1 -- Cycle rejection: a drag whose source is a directory and whose resolved destination
\* directory is that directory or lies inside it is cancelled, so no rename with such a
\* source and destination is ever handed to the Entry Source.
C1_CycleRejected ==
    \A c \in InFlight :
        c.kind = "rename" => ~(Entry(c.path).is_dir /\ IsPrefix(c.path, getParentPath(c.dst)))

Placed(order, sourceName, targetName, position, result) ==
    /\ Len(result) = Len(order) /\ Range(result) = Range(order)
    /\ IF position = "before"
       THEN IndexOf(result, sourceName) + 1 = IndexOf(result, targetName)
       ELSE IndexOf(result, sourceName) = IndexOf(result, targetName) + 1
    /\ SelectSeq(result, LAMBDA n : n # sourceName) = SelectSeq(order, LAMBDA n : n # sourceName)

\* C2 -- Reorder placement: the sequence a same-directory reorder of S relative to T (S # T)
\* hands to saveOrder is a permutation of the current order in which S is immediately
\* before T (before) or immediately after T (after) and the other names keep their order.
C2_ReorderPlacement ==
    (oPc = "saving" /\ oOp.src # oOp.tgt)
        => Placed(oOp.order, oOp.src, oOp.tgt, oOp.pos, oOp.names)

\* S stands two places before T and is dropped before it
C2_Witness ==
    /\ oPc = "saving" /\ oOp.pos = "before"
    /\ IndexOf(oOp.order, oOp.src) + 2 = IndexOf(oOp.order, oOp.tgt)

\* the directory a gesture resolves to: the target of an inside drop, the parent of the
\* target of a before / after drop and of the folder of an exit zone, the root
destDir(c) ==
    CASE c.how = "inside" -> c.target
      [] c.how \in {"before", "after", "exit"} -> getParentPath(c.target)
      [] OTHER -> Root

\* C3 -- Move destination: a rename that succeeds has renamed the source to
\* destDir + baseName(source); afterwards the listing of destDir contains the entry and, when
\* destDir is not the old parent, the listing of the old parent no longer does.
C3_MoveDestination ==
    last.act = "renameOk" =>
        LET c == last.c
            to == destDir(c) \o <<baseName(c.path)>>
        IN /\ c.dst = to
           /\ Entry(to) \in Range(listEntries(fs, destDir(c)))
           /\ destDir(c) # getParentPath(c.path)
                => Entry(c.path) \notin Range(listEntries(fs, getParentPath(c.path)))

\* an entry has been moved out of its folder through the folder's exit zone
C3_Witness ==
    /\ last.act = "renameOk" /\ last.c.how = "exit"
    /\ last.c.dst = getParentPath(getParentPath(last.c.path)) \o <<baseName(last.c.path)>>

\* C4 -- Exactly one outcome per gesture: the handlers of one pointer-up make one Move
\* Engine invocation, or one toggle / select, or nothing; never two of them.
C4_OneOutcome == last.act = "pointerUp" => last.engine + last.clicks <= 1

\* the row's handler and the document's handler both ran, and the Move Engine was invoked
C4_Witness ==
    last.act = "pointerUp" /\ last.ran = {"node", "document"} /\ last.engine = 1

Named(saved, e) == e.name \in Range(saved)

\* C5 -- Reconciliation: the sorted child list is a permutation of the children; the children
\* named in the saved order come first, in the order of the saved names, and the others
\* follow, directories before files and then by name.  A stale saved name adds nothing.
C5_Reconciled ==
    oLast.act = "children" =>
        LET kids == oLast.kids
            saved == oLast.saved
            shown == oLast.shown
        IN /\ Len(shown) = Len(kids) /\ Range(shown) = Range(kids)
           /\ \A i, j \in 1..Len(shown) : i < j =>
                /\ Named(saved, shown[j]) => Named(saved, shown[i])
                /\ (Named(saved, shown[i]) /\ Named(saved, shown[j]))
                     => \E k, l \in 1..Len(saved) :
                            k < l /\ saved[k] = shown[i].name /\ saved[l] = shown[j].name
                /\ (~Named(saved, shown[i]) /\ ~Named(saved, shown[j]))
                     => \/ shown[i].is_dir /\ ~shown[j].is_dir
                        \/ /\ shown[i].is_dir = shown[j].is_dir
                           /\ localeCompare(shown[i].name, shown[j].name) < 0

\* a saved order with a stale name and the name of a file, over a folder, a file and that file
C5_Witness ==
    /\ oLast.act = "children"
    /\ \E n \in Range(oLast.saved) : \A i \in 1..Len(oLast.kids) : oLast.kids[i].name # n
    /\ \E i \in 1..Len(oLast.kids) : Named(oLast.saved, oLast.kids[i]) /\ ~oLast.kids[i].is_dir
    /\ \E i, j \in 1..Len(oLast.kids) :
            /\ ~Named(oLast.saved, oLast.kids[i]) /\ oLast.kids[i].is_dir
            /\ ~Named(oLast.saved, oLast.kids[j]) /\ ~oLast.kids[j].is_dir

\* C6 -- Round trip: a loadOrder whose read succeeds returns exactly the names of the last
\* saveOrder that succeeded for that directory, the root included.
C6_RoundTrip ==
    (oLast.act = "load" /\ oLast.ok /\ oLast.dir \in DOMAIN oSaved)
        => oLast.names = oSaved[oLast.dir]

\* two names, one of them with a quote in it, saved for the root and loaded again
C6_Witness ==
    /\ oLast.act = "load" /\ oLast.ok /\ oLast.dir = Root /\ Root \in DOMAIN oSaved
    /\ Len(oSaved[Root]) = 2 /\ "q\"" \in Range(oSaved[Root])
    /\ oLast.names = oSaved[Root]

\* C7 -- Sort policy on every sibling list: when a refresh has delivered the root listing,
\* the root list is that listing reconciled with the root's order record (the saved names
\* first, then directories before files, then by name).
C7_SortPolicy ==
    (last.act = "opEnd" /\ last.c.phase = "ok")
        => namesOf(fileTree)
             = entryNames(reconcile(listEntries(fs, Root), savedOrder(orderRec, Root)))

\* C8 -- Move / reorder failure: when the order write of a reorder fails, the failure is
\* reported to the user and the names on screen are what they were before the gesture.
C8_FailureReported ==
    oLast.act = "writeFail" => (oLast.alert /\ oTree[oLast.dir] = oLast.before)

\* C9 -- Post-condition of a move: an operation whose rename has succeeded does not end
\* before it has started a refresh and, when the moved entry was the open note, delivered
\* the path-change notification, whatever the outcome of its later calls.
C9_RefreshAfterRename ==
    (last.act \in {"opEnd", "renameFail", "reorderFail"} /\ last.c.renamed)
        => /\ last.c.refreshed
           /\ last.c.sel = last.c.old => last.note = <<last.c.old, last.c.new>>

ChainExpanded(p) == \A k \in 1..Len(p) : SubSeq(p, 1, k) \in expandedPaths

\* C10 -- Refresh re-expansion: once a refresh and every list call since have completed
\* successfully, every directory of expandedPaths that exists (and whose ancestors are
\* expanded) is expanded in the tree, at any depth, with its current listing as children.
C10_ReExpansion ==
    (refreshed = "clean" /\ BagCardinality(calls) = 0 /\ ~isLoading)
        => \A p \in expandedPaths :
              (DirExists(fs, p) /\ ChainExpanded(p))
                => LET node == findNodeByPath(fileTree, p)
                   IN /\ node # NoNode /\ node.isExpanded
                      /\ [i \in 1..Len(node.children) |-> node.children[i].entry]
                            = listEntries(fs, p)

\* C11 -- Failed listing keeps the tree: when a folder listing has failed and no call is left
\* in flight, every child the folder had in the tree when the refresh began, and that still
\* exists, is still in the tree.
C11_FailedListingKeepsTree ==
    (last.act = "listFail" /\ BagCardinality(calls) = 0)
        => \A p \in last.c.had : p \in fs => findNodeByPath(fileTree, p) # NoNode

\* C12 -- Self-drop and no-op drops are cancelled: no rename that would leave the dragged
\* item at its current path is handed to the Entry Source.
C12_NoOpCancelled ==
    \A c \in InFlight : c.kind = "rename" => c.dst # c.path

\* C13 -- Idempotent reorder: applying the reorder of a gesture (same source, target and
\* position) to the order it has produced yields that order again.
C13_ReorderIdempotent ==
    oPc = "saving" => reorderNames(oOp.names, oOp.src, oOp.tgt, oOp.pos) = oOp.names

\* a reorder that changed the order of three or more names
C13_Witness ==
    /\ oPc = "saving" /\ oOp.src # oOp.tgt /\ Len(oOp.order) >= 3 /\ oOp.names # oOp.order
    /\ reorderNames(oOp.names, oOp.src, oOp.tgt, oOp.pos) = oOp.names

\* C14 -- Order records are written only by same-directory reorders: an operation that
\* moves an entry to another directory (old path recorded) never has a reorder call in flight.
C14_MoveWritesNoOrder ==
    \A c \in InFlight : c.kind = "reorder" => c.old = NoPath

Cleared ==
    /\ ~isDragging /\ draggedItem = NoPath /\ dragOverTarget = NoPath /\ insertionLine = NoLine
    /\ ~dragStartPos /\ ~dragStartTime

\* C15 (as stated) -- Cancellation has no side effects: a Dragging session that ends with
\* pointer-up over the sidebar background or outside the sidebar clears the drag state and
\* invokes no Move Engine operation.
C15_CancelNoSideEffects ==
    (last.act = "pointerUp" /\ last.dragged # NoPath /\ last.where \in {"bg", "out"})
        => (Cleared /\ last.engine = 0)

\* C15 (amended) -- a Dragging session that ends with pointer-up over the sidebar background
\* or outside the sidebar clears the drag state; the only Move Engine operation it can invoke
\* is the move to the root of a dragged item that lies in a folder, and only over the sidebar
\* background.
C15_CancelOrRootDrop ==
    (last.act = "pointerUp" /\ last.dragged # NoPath /\ last.where \in {"bg", "out"})
        => /\ Cleared
           /\ last.engine <= IF last.where = "bg" /\ Len(last.dragged) > 1 THEN 1 ELSE 0
           /\ last.engine = 1 =>
                 /\ last.c.kind = "rename" /\ last.c.path = last.dragged
                 /\ last.c.dst = <<baseName(last.dragged)>>

\* an item of a folder was dragged out of the sidebar and released there
C15_Witness ==
    /\ last.act = "pointerUp" /\ last.where = "out" /\ Len(last.dragged) > 1
    /\ last.engine = 0 /\ last.c = Call0 /\ Cleared

\* a pointer-up that ends a Dragging session
EndsDrag == button = "down" /\ button' = "up" /\ isDragging /\ draggedItem # NoPath

\* the drag state is cleared, but for a dragged item that the 50 ms timer is about to clear
Settled ==
    /\ ~isDragging /\ dragOverTarget = NoPath /\ insertionLine = NoLine
    /\ ~dragStartPos /\ ~dragStartTime
    /\ draggedItem = NoPath \/ timers > 0

engineCalls == [c \in { x \in InFlight : x.kind \in {"rename", "reorder"} } |-> calls[c]]

\* C17 -- Gestures are serialized: at most one rename or reorder call of the Move Engine is
\* in flight at a time.
C17_Serialized == BagCardinality(engineCalls) <= 1

\* C18 -- Every failed call is reported: when a call of the Entry Source has failed and its
\* caller has handled the failure, the user has been alerted.
C18_EveryFailureReported ==
    last.act \in {"listFail", "renameFail", "reorderFail"} => last.alert

\* no file stands before a directory in the list of entries es
KindOrdered(es) == \A i, j \in 1..Len(es) : i < j => ~(~es[i].is_dir /\ es[j].is_dir)

\* C19 (as stated) -- Directories before files: in every sibling list the tree materializes
\* every directory precedes every file, whatever the order record contains.
C19_DirectoriesFirst ==
    /\ oLast.act = "children" => KindOrdered(oLast.shown)
    /\ KindOrdered([i \in 1..Len(oTree[Root]) |-> Entry(<<oTree[Root][i]>>)])

\* C19 (amended) -- in a child list the children named in the order record come first,
\* whatever their kind, and among the children it does not name every directory precedes
\* every file; in the root list, which is built without an order record, every directory
\* precedes every file.
C19_DirectoriesFirstUnnamed ==
    /\ oLast.act = "children" =>
          /\ KindOrdered(SelectSeq(oLast.shown, LAMBDA e : ~Named(oLast.saved, e)))
          /\ \A i, j \in 1..Len(oLast.shown) :
                (i < j /\ Named(oLast.saved, oLast.shown[j])) => Named(oLast.saved, oLast.shown[i])
    /\ KindOrdered([i \in 1..Len(oTree[Root]) |-> Entry(<<oTree[Root][i]>>)])

\* a named file shown first, then an unnamed directory before an unnamed file; the root list
\* is on screen with its directory and its files
C19_Witness ==
    /\ oLast.act = "children" /\ Len(oLast.shown) = 3
    /\ Named(oLast.saved, oLast.shown[1]) /\ ~oLast.shown[1].is_dir
    /\ ~Named(oLast.saved, oLast.shown[2]) /\ oLast.shown[2].is_dir
    /\ ~Named(oLast.saved, oLast.shown[3]) /\ ~oLast.shown[3].is_dir
    /\ Len(oTree[Root]) = 3

\* the placement the spec resolves for a pointer at height relY (percent) of the row of e
classification(e, relY) ==
    IF e.is_dir
    THEN IF relY < 25 THEN "before" ELSE IF relY > 75 THEN "after" ELSE "inside"
    ELSE IF relY < 50 THEN "before" ELSE "after"

\* the placement the Drag Controller holds for the row at path
resolvedPlacement(path) ==
    IF insertionLine # NoLine /\ insertionLine.path = path THEN insertionLine.position
    ELSE IF dragOverTarget = path THEN "inside"
    ELSE "none"

\* C20 -- Hover classification: while Dragging, after every pointer-move over a node other
\* than the source, the resolved placement is the classification of the pointer's current
\* height within that node.
C20_HoverClassification ==
    (last.act = "move" /\ isDragging /\ draggedItem # NoPath /\ at.path # draggedItem)
        => resolvedPlacement(at.path)
             = classification(lookupEntry(entries, fileTree, at.path), last.relY)

\* the bounds handleMouseMove is to apply for a gesture that began on the node at path
startThreshold(path) == IF Entry(path).is_dir THEN DirThreshold ELSE FileThreshold
startMinTime(path) == IF Entry(path).is_dir THEN DirMinTime ELSE FileMinTime

\* C21 -- Drag-start threshold: a pointer-move over the pressed node, while the button is
\* held, enters Dragging exactly when the displacement exceeds the threshold and the elapsed
\* time the minimum of the pressed node's kind (5 px / 50 ms for a file, 15 px / 200 ms for
\* a directory); otherwise the controller stays ArmedPending.
C21_DragStartThreshold ==
    (last.act = "measure" /\ button = "down" /\ at = Loc("node", pressed))
        => (last.started
              <=> (last.dist > startThreshold(pressed) /\ last.t > startMinTime(pressed)))

\* C22 -- Dragging needs the button held: every pointer-up returns the controller to Idle and
\* clears the recorded pointer start, so with no button down there is no recorded start and
\* no drag.
C22_ButtonHeld ==
    button = "up" => (~isDragging /\ ~dragStartPos /\ ~dragStartTime)

\* C23 -- Drag source: while the button of a gesture is held and the controller is Dragging,
\* the dragged item is the node on which the pointer-down occurred.
C23_SourceIsPressed ==
    (button = "down" /\ isDragging) => draggedItem = pressed

\* C24 -- Click resolution: a pointer-up in ArmedPending over the pressed node resolves, within
\* the click window of the node's kind (under 250 ms on a directory, under 200 ms on a file),
\* to exactly one toggle of that directory or one select of that markdown file, and to nothing
\* otherwise; every pointer-up in ArmedPending issues no rename or reorder and clears the
\* recorded pointer start.
C24_ClickResolution ==
    (last.act = "pointerUp" /\ last.armed) =>
        LET e == Entry(last.pressed)
            quick == IF e.is_dir THEN last.t < DirClickWindow ELSE last.t < FileClickWindow
        IN /\ (last.where = "node" /\ last.over = last.pressed) =>
                /\ last.clicks = (IF quick /\ (e.is_dir \/ isMarkdown(e)) THEN 1 ELSE 0)
                /\ last.clicks = 1 => last.clicked = last.pressed
                /\ (last.clicks = 1 /\ ~e.is_dir) => selectedNote = last.pressed
           /\ last.engine = 0 /\ last.c.kind \notin {"rename", "reorder"}
           /\ ~dragStartPos /\ ~dragStartTime

\* the part of C24 about a pointer-up over the pressed node
C24_ClickOnPressed ==
    (last.act = "pointerUp" /\ last.armed /\ last.where = "node" /\ last.over = last.pressed) =>
        LET e == Entry(last.pressed)
            quick == IF e.is_dir THEN last.t < DirClickWindow ELSE last.t < FileClickWindow
        IN /\ last.clicks = (IF quick /\ (e.is_dir \/ isMarkdown(e)) THEN 1 ELSE 0)
           /\ last.clicks = 1 => last.clicked = last.pressed
           /\ last.engine = 0 /\ last.c.kind \notin {"rename", "reorder"}
           /\ ~dragStartPos /\ ~dragStartTime

\* the step is a toggle of the directory at path p
Toggles(p) == last'.act = "pointerUp" /\ last'.clicks = 1 /\ last'.clicked = p /\ Entry(p).is_dir

\* C25 -- toggle(node) flips the node's expanded flag, adds its path to expandedPaths when
\* expanding and removes it when collapsing, and issues a list call for the node exactly when
\* it is being expanded with no children loaded; collapsing issues no call and keeps the
\* loaded children.
C25_Toggle ==
    [][ \A p \in Rendered(fileTree) : Toggles(p) =>
          LET node == findNodeByPath(fileTree, p)
              after == findNodeByPath(fileTree', p)
          IN /\ after.isExpanded = ~node.isExpanded
             /\ after.children = node.children
             /\ expandedPaths' = IF node.isExpanded THEN expandedPaths \ {p}
                                  ELSE expandedPaths \cup {p}
             /\ calls' = IF ~node.isExpanded /\ Len(node.children) = 0
                          THEN calls (+) SetToBag({listDirCall(p, expandedPaths)})
                          ELSE calls ]_vars

\* a folder whose children are loaded has been collapsed
C25_Witness ==
    /\ last.act = "pointerUp" /\ last.clicks = 1 /\ Entry(last.clicked).is_dir
    /\ LET node == findNodeByPath(fileTree, last.clicked)
       IN ~node.isExpanded /\ Len(node.children) > 0 /\ last.clicked \notin expandedPaths
    /\ last.c = Call0

\* every node of the tree, at any depth
RECURSIVE AllNodes(_)
AllNodes(nodes) ==
    IF nodes = <<>> THEN {}
    ELSE {Head(nodes)} \cup AllNodes(Head(nodes).children) \cup AllNodes(Tail(nodes))

\* C26 -- Expansion agrees with expandedPaths: once no call is in flight, a directory node of
\* the tree is expanded if and only if its path is in expandedPaths.
C26_ExpansionAgrees ==
    (BagCardinality(calls) = 0 /\ ~isLoading)
        => \A node \in AllNodes(fileTree) :
              node.entry.is_dir => (node.isExpanded <=> node.entry.path \in expandedPaths)

\* C27 -- A later gesture is not touched by an earlier operation: when a move or reorder ends
\* (its refresh delivered, or its call failed) while the button of a later gesture is held,
\* the dragging flag, the dragged item, the recorded start and the insertion marker are
\* unchanged.
C27_LaterGestureUntouched ==
    [][ (button = "down" /\ last'.act \in {"opEnd", "renameFail", "reorderFail"})
            => UNCHANGED dragVars ]_vars

\* C28 -- Overlapping refreshes end on the latest state: once every operation has refreshed,
\* no listing has failed and no call is left in flight, the root list of the tree holds
\* exactly the entries the root of the vault holds now.
C28_LatestState ==
    (refreshed = "clean" /\ BagCardinality(calls) = 0 /\ ~isLoading)
        => { fileTree[i].entry.path : i \in 1..Len(fileTree) } = ChildrenOf(fs, Root)

\* C29 -- The selected note exists: when a move or a delete has succeeded and its refresh has
\* been delivered, the selected note is null or the path of an entry of the vault.
C29_SelectedExists ==
    (last.act \in {"opEnd", "delEnd"} /\ last.c.phase = "ok")
        => (selectedNote = NoPath \/ selectedNote \in fs)

====
